---- MODULE Spec2Model ----
(***************************************************************************)
(* Model of spotmenu.py: the SpotifyBlocklet status pipeline.              *)
(*                                                                         *)
(* Threads of control:                                                     *)
(*   - the loop thread executing SpotifyBlocklet.run() / _run() and, while *)
(*     inside loop.run(), the D-Bus signal handlers;                       *)
(*   - the reader thread executing SpotifyBlocklet.handle_input();         *)
(*   - the environment: the player on the bus, the operator (interrupt),   *)
(*     the user of the view.                                               *)
(*                                                                         *)
(* Strings are TLA+ strings.  The en dash of the default format is written *)
(* "-" because the module text is ASCII.  Python's None is the empty       *)
(* sequence and a present value x is <<x>>.                                *)
(***************************************************************************)
EXTENDS Integers, Sequences, FiniteSets, TLC

\* ------------------------------------------------------------- bounds

\* number of times run() may call _run()
MaxAttempts == 2
\* number of events of the environment in one behaviour: signals of a
\* running player (property changes, its exit or replacement) and matching
\* command lines.  A player start needs an earlier exit and a view closing
\* an earlier command line, so both are bounded with them.
MaxEvents == 2
\* longest field value handed to Formatter.format_field
MaxFieldLen == 2
\* longest album-art URL handed to GUIManager.old_url_to_new
MaxUrlLen == 4

\* ------------------------------------------------------------- values

None == <<>>
Some(x) == <<x>>

\* PlaybackStatus values reported by the player
Statuses == {"Playing", "Paused"}

\* unique connection names that may own BUS_NAME ("" is "no owner")
Owners == {":1.1", ":1.2"}

\* Metadata dictionaries the player may report.  The last one lacks
\* xesam:artist.
TrackAB == ("xesam:artist" :> <<"A", "B">>) @@ ("xesam:title" :> "T")
TrackC == ("xesam:artist" :> <<"C">>) @@ ("xesam:title" :> "U")
TrackNoArtist == ("xesam:title" :> "T")
Metas == {TrackAB, TrackC, TrackNoArtist}

\* the changed_properties dictionary of a PropertiesChanged signal
Payload(status, metadata, keys) ==
    [k \in keys |-> IF k = "PlaybackStatus" THEN status ELSE metadata]

PropsMsg(changed) ==
    [sig |-> "PropertiesChanged", changed |-> changed, old |-> "", new |-> ""]
OwnerMsg(old, new) ==
    [sig |-> "NameOwnerChanged", changed |-> <<>>, old |-> old, new |-> new]

VARIABLES
    forever,      \* run(forever=...)
    dedupe,       \* self._dedupe
    pc,           \* position of the loop thread in run()
    result,       \* how run() ended: "running", "returned", "raised"
    loop_quit,    \* self.loop.quit() of line 158 was executed
    attempts,     \* number of _run() calls made
    receivers,    \* signal receivers registered per signal on the bus
    spotify,      \* self.spotify is set
    prev_info,    \* self._prev_info
    old_status,   \* self.old_status
    gui,          \* self.gui: "None", "open" (UI loop running), "closed"
    out,          \* lines printed to standard output
    owner,        \* current owner of BUS_NAME on the bus ("" = none)
    pstatus,      \* the player's PlaybackStatus
    meta,         \* the player's Metadata
    queue,        \* signals received by the connection, not yet dispatched
    served,       \* receivers already invoked for Head(queue)
    events,       \* number of environment events so far
    rpc,          \* position of the reader thread
    eof,          \* the command input stream has reached end of input
    view_thread,  \* thread that built the view and runs its UI loop
    interrupted,  \* a KeyboardInterrupt was delivered to the loop thread
    failures,     \* DBusExceptions caught by run()
    sessStart,    \* Len(out) when the current session subscribed
    snap,         \* line rendered by the current session's initial read
    msgBlanks,    \* blank lines printed so far for Head(queue)
    ev,           \* record of the last step taken
    overrides,    \* config["status_icons"] given to SpotifyBlocklet.__init__
    status_icons, \* Formatter._status_icons
    markup_escape,\* Formatter._markup_escape
    literal,      \* literal text of the template in front of the field
    format_spec,  \* filter of the template's field ("" = none)
    arg,          \* value of the template's field
    text,         \* what Formatter.__call__ has rendered so far
    fpc,          \* position inside Formatter.__call__
    art_url,      \* metadata["mpris:artUrl"]
    album_art,    \* GUIManager.album_art
    image_url,    \* URL handed to image_from_url by update_image
    apc           \* position inside update_from_spotify_block

\* the state of SpotifyBlocklet and its environment
blocklet == <<forever, dedupe, pc, result, loop_quit, attempts, receivers,
              spotify, prev_info, old_status, gui, out, owner, pstatus, meta,
              queue, served, events, rpc, eof, view_thread, interrupted,
              failures, sessStart, snap, msgBlanks, ev>>
\* the state of one Formatter call with a configured field filter
formatting == <<overrides, status_icons, markup_escape, literal, format_spec,
                arg, text, fpc>>
\* the state of one view update
artwork == <<art_url, album_art, image_url, apc>>
helpers == <<formatting, artwork>>

vars == <<blocklet, helpers>>

\* ------------------------------------------------------------- Formatter

RECURSIVE Join(_, _)
\* ", ".join(seq)
Join(seq, sep) ==
    IF Len(seq) = 0 THEN ""
    ELSE IF Len(seq) = 1 THEN seq[1]
    ELSE seq[1] \o sep \o Join(Tail(seq), sep)

\* DEFAULT_CONFIG["format"] = "{artist} - {title}", markup_escape False:
\* Formatter.__call__ on (status, artist, title)
Formatter(status, artist, title) == artist \o " - " \o title

\* ------------------------------------------------------------- field filters

\* In this part a string is the sequence of its characters, each a
\* one-character string; a glyph of the private use area is one character,
\* written as its code point.

RECURSIVE Flatten(_)
\* "".join(seqs)
Flatten(seqs) ==
    IF seqs = <<>> THEN <<>> ELSE Head(seqs) \o Flatten(Tail(seqs))

\* all strings of at most n characters of alphabet
Strings(alphabet, n) == UNION {[1..k -> alphabet] : k \in 0..n}

LowerCase == <<"a", "b", "c", "d", "e", "f", "g", "h", "i", "j", "k", "l", "m",
               "n", "o", "p", "q", "r", "s", "t", "u", "v", "w", "x", "y", "z">>
UpperCase == <<"A", "B", "C", "D", "E", "F", "G", "H", "I", "J", "K", "L", "M",
               "N", "O", "P", "Q", "R", "S", "T", "U", "V", "W", "X", "Y", "Z">>

UpperChar(c) ==
    IF \E i \in DOMAIN LowerCase : LowerCase[i] = c
    THEN UpperCase[CHOOSE i \in DOMAIN LowerCase : LowerCase[i] = c]
    ELSE c
LowerChar(c) ==
    IF \E i \in DOMAIN UpperCase : UpperCase[i] = c
    THEN LowerCase[CHOOSE i \in DOMAIN UpperCase : UpperCase[i] = c]
    ELSE c

\* str.upper, str.lower, str.capitalize
Upper(value) == [i \in DOMAIN value |-> UpperChar(value[i])]
Lower(value) == [i \in DOMAIN value |-> LowerChar(value[i])]
Capitalize(value) ==
    [i \in DOMAIN value |-> IF i = 1 THEN UpperChar(value[i]) ELSE LowerChar(value[i])]

\* html.escape(value), quote=True
EscapeChar(c) ==
    CASE c = "&" -> <<"&", "a", "m", "p", ";">>
      [] c = "<" -> <<"&", "l", "t", ";">>
      [] c = ">" -> <<"&", "g", "t", ";">>
      [] c = "\"" -> <<"&", "q", "u", "o", "t", ";">>
      [] c = "'" -> <<"&", "#", "x", "2", "7", ";">>
      [] OTHER -> <<c>>
Escape(value) == Flatten([i \in DOMAIN value |-> EscapeChar(value[i])])

Playing == <<"P", "l", "a", "y", "i", "n", "g">>
Paused == <<"P", "a", "u", "s", "e", "d">>
Stopped == <<"S", "t", "o", "p", "p", "e", "d">>

\* DEFAULT_CONFIG["status_icons"]
DefaultIcons ==
    (Playing :> <<"uf04b">>) @@ (Paused :> <<"uf04c">>) @@ (Stopped :> <<"uf04d">>)

\* the empty dictionary
Empty == [k \in {} |-> <<>>]

\* config["status_icons"] dictionaries a configuration file may give: none,
\* one replacing a default glyph by markup characters, one adding a status
IconOverrides ==
    {Empty, (Playing :> <<"<", "b">>), (<<"a">> :> <<"&">>)}

\* SpotifyBlocklet.__init__ keeping the given dictionary instead of updating
\* the default one with it.
MergeIcons_Replace(defaults, given) == given

\* SpotifyBlocklet.__init__ (lines 95-101): _config[key].update(value), and
\* Formatter.__init__ (line 40) copies the result
MergeIcons(defaults, given) == given @@ defaults

\* Formatter._format_func__status_icon
status_icon(status) ==
    IF status \in DOMAIN status_icons THEN status_icons[status] ELSE <<"?">>

\* Formatter._FORMAT_FUNCS
FormatSpecs == {"upper", "lower", "capitalize", "icon"}

FormatFunc(spec, value) ==
    CASE spec = "upper" -> Upper(value)
      [] spec = "lower" -> Lower(value)
      [] spec = "capitalize" -> Capitalize(value)
      [] spec = "icon" -> status_icon(value)

\* format_field escaping the value before it applies the filter.
format_field_EscapeFirst(value, spec) ==
    LET escaped == IF markup_escape THEN Escape(value) ELSE value
    IN  IF spec # "" THEN FormatFunc(spec, escaped) ELSE escaped

\* Formatter.format_field
format_field(value, spec) ==
    LET filtered == IF spec # "" THEN FormatFunc(spec, value) ELSE value
    IN  IF markup_escape THEN Escape(filtered) ELSE filtered

\* field values: short strings of a lower-case letter, an upper-case letter
\* and two markup characters, and the PlaybackStatus values
FieldValues == Strings({"a", "B", "<", "&"}, MaxFieldLen) \cup {Playing, Paused, Stopped}

\* ------------------------------------------------------------- album art

\* new_base_url without its last "/".
new_base_url_NoSlash ==
    <<"h", "t", "t", "p", "s", ":", "/", "/", "i", ".", "s", "c", "d", "n", ".",
      "c", "o", "/", "i", "m", "a", "g", "e">>

\* new_base_url of old_url_to_new (line 354)
new_base_url ==
    <<"h", "t", "t", "p", "s", ":", "/", "/", "i", ".", "s", "c", "d", "n", ".",
      "c", "o", "/", "i", "m", "a", "g", "e", "/">>

\* the base of the URLs the player reports
old_base_url ==
    <<"h", "t", "t", "p", "s", ":", "/", "/", "o", "p", "e", "n", ".", "s", "p",
      "o", "t", "i", "f", "y", ".", "c", "o", "m", "/", "i", "m", "a", "g", "e",
      "/">>

RECURSIVE Split(_, _)
\* url.split(sep): the list of the pieces between the separators
Split(url, sep) ==
    IF \A i \in DOMAIN url : url[i] # sep
    THEN <<url>>
    ELSE LET i == CHOOSE j \in DOMAIN url :
                      url[j] = sep /\ \A k \in 1..(j - 1) : url[k] # sep
         IN  <<SubSeq(url, 1, i - 1)>> \o Split(SubSeq(url, i + 1, Len(url)), sep)

\* GUIManager.old_url_to_new
old_url_to_new(url) ==
    LET pieces == Split(url, "/")
        song_id == pieces[Len(pieces)]
    IN  new_base_url \o song_id

\* album-art URLs: any short string of two letters and "/", and short ids
\* behind the old and the new base
ArtUrls ==
    Strings({"a", "b", "/"}, MaxUrlLen)
    \cup {base \o id : base \in {old_base_url, new_base_url},
                      id \in Strings({"a", "b"}, 2)}

\* ------------------------------------------------------------- show_info

HasTrackKeys(metadata) ==
    {"xesam:artist", "xesam:title"} \subseteq DOMAIN metadata

\* GUIManager.update_from_spotify_block called from show_info (line 221):
\* the exception it ends with, "none" when it returns.
ViewUpdate ==
    IF owner = "" THEN "DBusException"
    ELSE IF ~HasTrackKeys(meta) THEN "KeyError"
    ELSE IF gui = "closed" THEN "ViewError"
    ELSE "none"

\* The outcome of show_info(status, metadata, only_if_changed).  viewOk is
\* the outcome of a Tk variable write made on a view whose UI loop has ended.
Outcome(exc, line, printed, newPrev, newOut, newOld) ==
    [exc |-> exc, line |-> line, printed |-> printed, prev_info |-> newPrev,
     out |-> newOut, old_status |-> newOld]

\* the dedupe gate of line 217
Gate(only_if_changed, info) == ~only_if_changed \/ prev_info # Some(info)

show_info(status, metadata, only_if_changed, viewOk) ==
    IF ~HasTrackKeys(metadata)
    THEN Outcome("KeyError", None, 0, prev_info, out, old_status)
    ELSE LET info == Formatter(status, Join(metadata["xesam:artist"], ", "),
                               metadata["xesam:title"])
             call == old_status # status /\ gui # "None"
             os == IF call THEN status ELSE old_status
         IN  IF call /\ gui = "closed" /\ ~viewOk
             THEN Outcome("ViewError", Some(info), 0, prev_info, out, old_status)
             ELSE IF Gate(only_if_changed, info)
             THEN Outcome(IF gui = "None" THEN "none" ELSE ViewUpdate,
                          Some(info), 1, Some(info), Append(out, info), os)
             ELSE Outcome("none", Some(info), 0, prev_info, out, os)

\* whether the call of show_info with outcome r called a method of the view:
\* update_play_button_text (line 214) or update_from_spotify_block (line 221)
Pushed(r) ==
    /\ gui # "None"
    /\ \/ r.exc = "ViewError"
       \/ r.old_status # old_status
       \/ r.printed = 1

\* ------------------------------------------------------------- ghost record

\* the line of (status, metadata), None if the metadata lacks a key
Line(status, metadata) ==
    IF HasTrackKeys(metadata)
    THEN Some(Formatter(status, Join(metadata["xesam:artist"], ", "),
                        metadata["xesam:title"]))
    ELSE None

Complete(changed) == {"PlaybackStatus", "Metadata"} \subseteq DOMAIN changed

Expect(changed) ==
    Line(IF "PlaybackStatus" \in DOMAIN changed
         THEN changed["PlaybackStatus"] ELSE pstatus,
         IF "Metadata" \in DOMAIN changed THEN changed["Metadata"] ELSE meta)

\* What the last step did:
\*   kind      "initial" (show_initial_info), "props" (on_properties_changed),
\*             "owner" (on_name_owner_changed), "skip" (handle_input read a
\*             line that matches no button), "eof" (handle_input read end
\*             of input), "idle" (anything else)
\*   exc       the exception the call ended with, "none" if it returned
\*   line      the line it rendered, None if it rendered none
\*   printed   the number of lines it printed
\*   prev      self._prev_info when it started
\*   lost      the signal was an owner change from non-empty to empty
\*   done      it was the last receiver of its signal
\*   blanks    blank lines printed for its signal so far
\*   complete  the payload carried both PlaybackStatus and Metadata
\*   expect    the line of the event's values, a property missing from the
\*             payload read from the player; None if the metadata lacks a key
\*   view      the state of self.gui ("open", "closed") when it called a
\*             method of the view, "none" if it called none
Ev(kind, exc, line, printed, prev, lost, done, blanks, complete, expect, view) ==
    [kind |-> kind, exc |-> exc, line |-> line, printed |-> printed,
     prev |-> prev, lost |-> lost, done |-> done, blanks |-> blanks,
     complete |-> complete, expect |-> expect, view |-> view]

\* the record left by a step that runs no handler and renders nothing
Idle == Ev("idle", "none", None, 0, None, FALSE, FALSE, 0, TRUE, None, "none")

\* no Formatter call with a field filter is under way
FormatterIdle ==
    /\ overrides = Empty
    /\ status_icons = MergeIcons(DefaultIcons, Empty)
    /\ markup_escape = FALSE
    /\ literal = <<>>
    /\ format_spec = ""
    /\ arg = <<>>
    /\ text = <<>>
    /\ fpc = "idle"

\* no view update is under way
ArtIdle ==
    /\ art_url = <<>>
    /\ album_art = <<>>
    /\ image_url = <<>>
    /\ apc = "idle"

\* the blocklet after SpotifyBlocklet.__init__, run() about to start, and
\* the player as it is then
Constructed ==
    /\ forever \in BOOLEAN
    /\ dedupe \in BOOLEAN
    /\ pc = "connect"
    /\ result = "running"
    /\ loop_quit = FALSE
    /\ attempts = 0
    /\ receivers = 0
    /\ spotify = FALSE
    /\ prev_info = None
    /\ old_status = ""
    /\ gui = "None"
    /\ out = <<>>
    /\ owner \in {"", ":1.1"}
    /\ pstatus = "Playing"
    /\ meta \in {TrackAB, TrackNoArtist}
    /\ queue = <<>>
    /\ served = 0
    /\ events = 0
    /\ rpc = "read"
    /\ eof = FALSE
    /\ view_thread = "none"
    /\ interrupted = FALSE
    /\ failures = 0
    /\ sessStart = 0
    /\ snap = None
    /\ msgBlanks = 0
    /\ ev = Idle

\* one blocklet with the default configuration, no player on the bus
DefaultBlocklet ==
    /\ Constructed
    /\ forever
    /\ dedupe
    /\ owner = ""
    /\ meta = TrackAB

Init ==
    /\ Constructed
    /\ FormatterIdle
    /\ ArtIdle

\* ------------------------------------------------------------- run()

\* Finally without its `break`: single-run mode goes round the loop like
\* continuous mode.
Finally_NoBreak(exc) ==
    IF exc = "none" THEN [pc |-> "connect", result |-> "running", quit |-> FALSE]
    ELSE [pc |-> "done", result |-> "raised", quit |-> FALSE]

\* Finally breaking out of the loop in continuous mode too.
Finally_AlwaysBreak(exc) ==
    [pc |-> "done", result |-> "returned", quit |-> TRUE]

\* The finally clause of run() (lines 155-157) entered with exception exc
\* in flight ("none": no exception): `break` discards it.
Finally(exc) ==
    IF ~forever THEN [pc |-> "done", result |-> "returned", quit |-> TRUE]
    ELSE IF exc = "none" THEN [pc |-> "connect", result |-> "running", quit |-> FALSE]
    ELSE [pc |-> "done", result |-> "raised", quit |-> FALSE]

\* AfterRun without the `except DBusException` clause.
AfterRun_NoCatch(exc) ==
    IF exc = "KeyboardInterrupt"
    THEN [pc |-> "done", result |-> "returned", quit |-> TRUE]
    ELSE Finally(exc)

\* The try statement of run() (lines 149-157) when _run() ends with exc
\* ("none": _run() returned).
AfterRun(exc) ==
    IF exc = "DBusException"
    THEN [pc |-> "backoff", result |-> "running", quit |-> FALSE]
    ELSE IF exc = "KeyboardInterrupt"
    THEN [pc |-> "done", result |-> "returned", quit |-> TRUE]
    ELSE Finally(exc)

\* a KeyboardInterrupt raised inside time.sleep(1) of the except clause
InterruptInBackoff == Finally("KeyboardInterrupt")

Leave(next, exc) ==
    /\ pc' = next.pc
    /\ result' = next.result
    /\ loop_quit' = next.quit
    /\ failures' = IF exc = "DBusException" THEN failures + 1 ELSE failures

config == <<forever, dedupe>>
player == <<owner, pstatus, meta>>
reader == <<rpc, eof, view_thread>>
gate == <<prev_info, old_status, out>>
session == <<sessStart, snap>>
dispatch == <<queue, served, msgBlanks>>

\* _run(), lines 132-138: the bus is resolved and both receivers registered
Connect ==
    /\ pc = "connect"
    /\ attempts < MaxAttempts
    /\ attempts' = attempts + 1
    /\ receivers' = receivers + 1
    /\ spotify' = TRUE
    /\ pc' = "initial"
    /\ sessStart' = Len(out)
    /\ snap' = None
    /\ ev' = Idle
    /\ UNCHANGED <<config, helpers, player, reader, gate, dispatch, result, loop_quit,
                   gui, events, interrupted, failures>>

\* _run(), lines 132-138: dbus.SessionBus() / get_object raises
ConnectFail ==
    /\ pc = "connect"
    /\ attempts < MaxAttempts
    /\ attempts' = attempts + 1
    /\ Leave(AfterRun("DBusException"), "DBusException")
    /\ ev' = Idle
    /\ UNCHANGED <<config, helpers, player, reader, gate, dispatch, session, receivers,
                   spotify, gui, events, interrupted>>

\* only_if_changed as passed by show_initial_info (lines 198-201)
InitialOnlyIfChanged == FALSE

\* _run(), line 139: show_initial_info()
InitialInfo ==
    /\ pc = "initial"
    /\ \E viewOk \in BOOLEAN :
         IF owner = ""
         THEN /\ Leave(AfterRun("DBusException"), "DBusException")
              /\ ev' = Ev("initial", "DBusException", None, 0, prev_info,
                          FALSE, FALSE, 0, TRUE, None, "none")
              /\ UNCHANGED <<gate, snap>>
         ELSE LET r == show_info(pstatus, meta, InitialOnlyIfChanged, viewOk)
              IN  /\ prev_info' = r.prev_info
                  /\ out' = r.out
                  /\ old_status' = r.old_status
                  /\ snap' = r.line
                  /\ IF r.exc = "none"
                     THEN /\ pc' = "loop"
                          /\ UNCHANGED <<result, loop_quit, failures>>
                     ELSE Leave(AfterRun(r.exc), r.exc)
                  /\ ev' = Ev("initial", r.exc, r.line, r.printed, prev_info,
                              FALSE, FALSE, 0, TRUE, Line(pstatus, meta),
                              IF Pushed(r) THEN gui ELSE "none")
    /\ UNCHANGED <<config, helpers, player, reader, dispatch, sessStart, attempts,
                   receivers, spotify, gui, events, interrupted>>

\* Signals dispatched as soon as the receivers are registered, before the
\* initial read.
CanDispatch_Early == pc \in {"initial", "loop"}

\* _run(), lines 139-140: signals are dispatched to the handlers inside
\* loop.run() only, which is entered after show_initial_info() returned
CanDispatch == pc = "loop"

\* what the dispatcher does with Head(queue) once one more receiver ran
Served ==
    IF served + 1 >= receivers
    THEN /\ queue' = Tail(queue)
         /\ served' = 0
    ELSE /\ queue' = queue
         /\ served' = served + 1

\* on_properties_changed (lines 176-182) run for one receiver; an exception
\* of the handler is logged by the dispatcher and the loop goes on
on_properties_changed(changed, viewOk) ==
    IF {"PlaybackStatus", "Metadata"} \subseteq DOMAIN changed
    THEN show_info(changed["PlaybackStatus"], changed["Metadata"], dedupe, viewOk)
    ELSE Outcome("KeyError", None, 0, prev_info, out, old_status)

DispatchProps ==
    /\ CanDispatch
    /\ queue # <<>>
    /\ Head(queue).sig = "PropertiesChanged"
    /\ \E viewOk \in BOOLEAN :
         LET r == on_properties_changed(Head(queue).changed, viewOk)
         IN  /\ prev_info' = r.prev_info
             /\ out' = r.out
             /\ old_status' = r.old_status
             /\ ev' = Ev("props", r.exc, r.line, r.printed, prev_info, FALSE,
                         served + 1 >= receivers, 0,
                         Complete(Head(queue).changed),
                         Expect(Head(queue).changed),
                         IF Pushed(r) THEN gui ELSE "none")
    /\ Served
    /\ msgBlanks' = 0
    /\ UNCHANGED <<config, helpers, player, reader, session, pc, result, loop_quit,
                   attempts, receivers, spotify, gui, events, interrupted,
                   failures>>

\* on_name_owner_changed (lines 184-188): the lines it prints
OwnerLost(old, new) == old # "" /\ new = ""

\* on_name_owner_changed printing the blank line without the reset.
on_name_owner_changed_NoReset(old, new) ==
    IF OwnerLost(old, new)
    THEN [out |-> Append(out, ""), prev_info |-> prev_info, printed |-> 1]
    ELSE [out |-> out, prev_info |-> prev_info, printed |-> 0]

on_name_owner_changed(old, new) ==
    IF OwnerLost(old, new)
    THEN [out |-> Append(out, ""), prev_info |-> None, printed |-> 1]
    ELSE [out |-> out, prev_info |-> prev_info, printed |-> 0]

DispatchOwner ==
    /\ CanDispatch
    /\ queue # <<>>
    /\ Head(queue).sig = "NameOwnerChanged"
    /\ LET m == Head(queue)
           r == on_name_owner_changed(m.old, m.new)
           done == served + 1 >= receivers
       IN  /\ prev_info' = r.prev_info
           /\ out' = r.out
           /\ msgBlanks' = IF done THEN 0 ELSE msgBlanks + r.printed
           /\ ev' = Ev("owner", "none", None, r.printed, prev_info,
                       OwnerLost(m.old, m.new), done, msgBlanks + r.printed,
                       TRUE, None, "none")
    /\ Served
    /\ UNCHANGED <<config, helpers, player, reader, session, pc, result, loop_quit,
                   attempts, receivers, spotify, gui, events, interrupted,
                   failures, old_status>>

\* _run(), line 140: loop.run() raises a DBusException
LoopFail ==
    /\ pc = "loop"
    /\ Leave(AfterRun("DBusException"), "DBusException")
    /\ ev' = Idle
    /\ UNCHANGED <<config, helpers, player, reader, gate, dispatch, session, attempts,
                   receivers, spotify, gui, events, interrupted>>

\* _run(), line 140: loop.run() returns (the loop was quit by its owner)
LoopReturn ==
    /\ pc = "loop"
    /\ Leave(AfterRun("none"), "none")
    /\ ev' = Idle
    /\ UNCHANGED <<config, helpers, player, reader, gate, dispatch, session, attempts,
                   receivers, spotify, gui, events, interrupted>>

\* run(), line 152: time.sleep(1) returns, then the finally clause
BackoffDone ==
    /\ pc = "backoff"
    /\ Leave(Finally("none"), "none")
    /\ ev' = Idle
    /\ UNCHANGED <<config, helpers, player, reader, gate, dispatch, session, attempts,
                   receivers, spotify, gui, events, interrupted>>

\* the operator's interrupt reaches the loop thread, wherever it is in run()
Interrupt ==
    /\ pc # "done"
    /\ Leave(IF pc = "backoff" THEN InterruptInBackoff
             ELSE AfterRun("KeyboardInterrupt"), "KeyboardInterrupt")
    /\ interrupted' = TRUE
    /\ ev' = Idle
    /\ UNCHANGED <<config, helpers, player, reader, gate, dispatch, session, attempts,
                   receivers, spotify, gui, events>>

\* ------------------------------------------------------------- environment

\* a signal reaches the connection when a match rule is installed for it
Enqueue(msg) ==
    /\ queue' = IF receivers > 0 THEN Append(queue, msg) ELSE queue
    /\ UNCHANGED <<served, msgBlanks>>

\* what the player may announce: its track (changed or not) with both keys,
\* or another status with PlaybackStatus alone
Changes ==
    {[status |-> pstatus, metadata |-> m, keys |-> {"PlaybackStatus", "Metadata"}] :
        m \in Metas}
    \cup {[status |-> st, metadata |-> meta, keys |-> {"PlaybackStatus"}] :
             st \in Statuses \ {pstatus}}

\* the player changes (or re-announces) its status and track
PlayerProps ==
    /\ pc # "done"
    /\ events < MaxEvents
    /\ events' = events + 1
    /\ owner # ""
    /\ \E c \in Changes :
         /\ pstatus' = c.status
         /\ meta' = c.metadata
         /\ Enqueue(PropsMsg(Payload(c.status, c.metadata, c.keys)))
    /\ ev' = Idle
    /\ UNCHANGED <<config, helpers, reader, gate, session, owner, pc, result, loop_quit,
                   attempts, receivers, spotify, gui, interrupted, failures>>

\* the player exits, or another connection takes BUS_NAME over
PlayerOwner ==
    /\ pc # "done"
    /\ events < MaxEvents
    /\ events' = events + 1
    /\ owner # ""
    /\ \E new \in (Owners \cup {""}) \ {owner} :
         /\ owner' = new
         /\ Enqueue(OwnerMsg(owner, new))
    /\ ev' = Idle
    /\ UNCHANGED <<config, helpers, reader, gate, session, pstatus, meta, pc, result,
                   loop_quit, attempts, receivers, spotify, gui, interrupted,
                   failures>>

\* a player starts and takes BUS_NAME
PlayerStart ==
    /\ pc # "done"
    /\ owner = ""
    /\ owner' = ":1.1"
    /\ Enqueue(OwnerMsg("", ":1.1"))
    /\ ev' = Idle
    /\ UNCHANGED <<config, helpers, reader, gate, session, pstatus, meta, pc, result,
                   loop_quit, attempts, receivers, spotify, gui, interrupted,
                   failures, events>>

\* ------------------------------------------------------------- reader thread

\* handle_input (lines 116-122) reads a line that matches a mouse button:
\* the view is built from the current properties; an exception ends the thread
ReaderClick ==
    /\ pc # "done"
    /\ rpc = "read"
    /\ ~eof
    /\ events < MaxEvents
    /\ events' = events + 1
    /\ IF spotify /\ owner # "" /\ HasTrackKeys(meta)
       THEN /\ gui' = "open"
            /\ view_thread' = "reader"
            /\ rpc' = "view"
       ELSE /\ gui' = gui
            /\ view_thread' = view_thread
            /\ rpc' = "dead"
    /\ ev' = Idle
    /\ UNCHANGED <<config, helpers, player, eof, gate, dispatch, session, pc, result,
                   loop_quit, attempts, receivers, spotify, interrupted,
                   failures>>

\* GUIManager.on_focus_out (lines 339-341): the user closes the view, its UI
\* loop ends and show_window returns to handle_input
ViewClose ==
    /\ pc # "done"
    /\ rpc = "view"
    /\ gui' = "closed"
    /\ rpc' = "read"
    /\ ev' = Idle
    /\ UNCHANGED <<config, helpers, player, eof, view_thread, gate, dispatch, session, pc, result,
                   loop_quit, attempts, receivers, spotify, events,
                   interrupted, failures>>

\* handle_input (lines 117-120) reads a line that matches no mouse button:
\* method_name is None and the loop reads on
ReaderSkip ==
    /\ pc # "done"
    /\ rpc = "read"
    /\ ~eof
    /\ events < MaxEvents
    /\ events' = events + 1
    /\ ev' = Ev("skip", "none", None, 0, prev_info, FALSE, FALSE, 0, TRUE, None,
                "none")
    /\ UNCHANGED <<config, helpers, player, reader, gate, dispatch, session, pc, result,
                   loop_quit, attempts, receivers, spotify, gui, interrupted,
                   failures>>

\* the command input stream is closed by its writer
StdinClose ==
    /\ pc # "done"
    /\ ~eof
    /\ events < MaxEvents
    /\ events' = events + 1
    /\ eof' = TRUE
    /\ ev' = Idle
    /\ UNCHANGED <<config, helpers, player, gate, dispatch, session, rpc, view_thread,
                   pc, result, loop_quit, attempts, receivers, spotify, gui,
                   interrupted, failures>>

\* handle_input (lines 117-120) at end of input: readline() returns "",
\* which matches no mouse button, and the loop reads on
ReaderEof ==
    /\ pc # "done"
    /\ rpc = "read"
    /\ eof
    /\ ev' = Ev("eof", "none", None, 0, prev_info, FALSE, FALSE, 0, TRUE, None,
                "none")
    /\ UNCHANGED <<config, helpers, player, reader, gate, dispatch, session, pc, result,
                   loop_quit, attempts, receivers, spotify, gui, events,
                   interrupted, failures>>

Next ==
    \/ Connect
    \/ ConnectFail
    \/ InitialInfo
    \/ DispatchProps
    \/ DispatchOwner
    \/ LoopFail
    \/ LoopReturn
    \/ BackoffDone
    \/ Interrupt
    \/ PlayerProps
    \/ PlayerOwner
    \/ PlayerStart
    \/ ReaderClick
    \/ ViewClose
    \/ ReaderSkip
    \/ StdinClose
    \/ ReaderEof

Spec == Init /\ [][Next]_vars

\* run() under the scheduling the code has: time.sleep(1) returns
FairSpec == Spec /\ WF_vars(BackoffDone)

\* ------------------------------------------------------------- Formatter

\* a SpotifyBlocklet built from a configuration, about to render the
\* template "<literal>{field:<format_spec>}" with the field value arg
FormatterInit ==
    /\ DefaultBlocklet
    /\ overrides \in IconOverrides
    /\ status_icons = MergeIcons(DefaultIcons, overrides)
    /\ markup_escape \in BOOLEAN
    /\ literal \in {<<>>, <<"<">>}
    /\ format_spec \in FormatSpecs \cup {""}
    /\ arg \in FieldValues
    /\ text = <<>>
    /\ fpc = "literal"
    /\ ArtIdle

\* Formatter.__call__ (line 46): string.Formatter copies the literal text
FormatLiteral ==
    /\ fpc = "literal"
    /\ text' = literal
    /\ fpc' = "field"
    /\ UNCHANGED <<blocklet, artwork, overrides, status_icons, markup_escape,
                   literal, format_spec, arg>>

\* Formatter.__call__ (line 46): string.Formatter appends format_field(...)
FormatField ==
    /\ fpc = "field"
    /\ text' = text \o format_field(arg, format_spec)
    /\ fpc' = "done"
    /\ UNCHANGED <<blocklet, artwork, overrides, status_icons, markup_escape,
                   literal, format_spec, arg>>

FormatterNext ==
    \/ FormatLiteral
    \/ FormatField

FormatterSpec == FormatterInit /\ [][FormatterNext]_vars

\* ------------------------------------------------------------- view update

ArtInit ==
    /\ DefaultBlocklet
    /\ FormatterIdle
    /\ art_url \in ArtUrls
    /\ album_art = <<>>
    /\ image_url = <<>>
    /\ apc = "update"

\* update_from_spotify_block, lines 264-265
UpdateAlbumArt ==
    /\ apc = "update"
    /\ album_art' = old_url_to_new(art_url)
    /\ apc' = "image"
    /\ UNCHANGED <<blocklet, formatting, art_url, image_url>>

\* update_image, line 327
update_image ==
    /\ apc = "image"
    /\ image_url' = old_url_to_new(album_art)
    /\ apc' = "done"
    /\ UNCHANGED <<blocklet, formatting, art_url, album_art>>

ArtNext ==
    \/ UpdateAlbumArt
    \/ update_image

ArtSpec == ArtInit /\ [][ArtNext]_vars

\* ------------------------------------------------------------- claims

LastOut == IF out = <<>> THEN None ELSE Some(out[Len(out)])

\* C1: for every property-changed event handled, the event's line is printed
\* if and only if dedupe is disabled or the line differs from the last
\* emitted line (None at construction and after a reset).
C1_DedupeGate ==
    ev.kind = "props" /\ ev.expect # None =>
        (ev.printed = 1 <=> (~dedupe \/ ev.expect # ev.prev))

\* C2: once a name-owner-changed signal has been dispatched, exactly one
\* blank line was printed for it if its owner went from non-empty to empty,
\* and otherwise nothing was printed and the stored line is unchanged.
C2_OneBlankPerExit ==
    ev.kind = "owner" /\ ev.done =>
        IF ev.lost
        THEN ev.blanks = 1 /\ prev_info = None
        ELSE ev.blanks = 0 /\ prev_info = ev.prev

\* C3: the handler of a disappearance leaves "no previous line" behind a
\* blank line, and the next property-changed event (the one that finds no
\* previous line) is printed whatever its line.
C3_ResetThenPrinted ==
    /\ ev.kind = "owner" /\ ev.lost => prev_info = None /\ LastOut = Some("")
    /\ ev.kind = "props" /\ ev.prev = None /\ ev.expect # None =>
           ev.printed = 1 /\ LastOut = ev.expect

\* C4: whenever the loop thread is dispatching signals, the first line
\* printed since the session subscribed is the line of the initial read.
C4_InitialFirst ==
    pc = "loop" =>
        /\ snap # None
        /\ Len(out) > sessStart
        /\ Some(out[sessStart + 1]) = snap

C4_Witness ==
    /\ pc = "loop"
    /\ attempts = 2
    /\ ev.kind = "props"
    /\ ev.printed = 1
    /\ Len(out) >= sessStart + 2

\* C5: with dedupe enabled the line of the initial read is printed if and
\* only if it differs from the last emitted line.
C5_InitialDeduped ==
    ev.kind = "initial" /\ ev.line # None /\ dedupe =>
        (ev.printed = 1 <=> ev.line # ev.prev)

C7_FailureRetried ==
    /\ [][forever /\ failures' # failures =>
            /\ pc' = "backoff"
            /\ result' = "running"
            /\ prev_info' = (IF ev'.printed = 1 THEN ev'.line ELSE prev_info)]_vars
    /\ [][forever /\ pc = "backoff" /\ pc' # "backoff" =>
            \/ pc' = "connect" /\ result' = "running" /\ prev_info' = prev_info
            \/ interrupted']_vars
    /\ (forever /\ pc = "backoff") ~> (pc = "connect" \/ interrupted)

C7_Witness ==
    /\ forever
    /\ failures = 2
    /\ pc = "connect"
    /\ prev_info # None
    /\ ~interrupted

\* C8: once an interrupt was delivered, run() has quit the loop and returned
\* normally.
C8_InterruptReturns ==
    interrupted => pc = "done" /\ result = "returned" /\ loop_quit

C10_MissingPropertyReread ==
    ev.kind = "props" /\ ~ev.complete =>
        /\ ev.exc # "KeyError"
        /\ ev.line = ev.expect

\* C11: the iteration of handle_input that reads end of input ends the
\* reader thread: the thread is not back at its read.
C11_EofEndsReader ==
    ev.kind = "eof" => rpc = "exit"

\* C12: while the command input stream is open the reader thread is alive:
\* reading, or inside the view it opened.
C12_ReaderSurvives ==
    ~eof /\ pc # "done" => rpc \in {"read", "view"}

\* C13: a view, once built, was built by the loop thread, which also runs
\* its UI loop.
C13_ViewOnLoopThread ==
    gui # "None" => view_thread = "loop"

\* C14: an initial read or a property-changed event that fails before a
\* line is rendered (missing metadata key, unreadable property) prints
\* nothing, leaves the stored line alone and leaves run() running.
C14_RenderFailureLocal ==
    ev.kind \in {"initial", "props"} /\ ev.exc # "none" /\ ev.line = None =>
        /\ ev.printed = 0
        /\ prev_info = ev.prev
        /\ result = "running"

\* C15: the rendered field is the filter's output, escaped if and only if
\* markup escaping is enabled, behind the template's literal text as it is
\* written; for one, "<" + upper("<a") escaped is "<" + "&lt;A".
C15_FilterThenEscape ==
    fpc = "done" =>
        LET filtered == IF format_spec = "" THEN arg ELSE FormatFunc(format_spec, arg)
        IN  /\ markup_escape => text = literal \o Escape(filtered)
            /\ ~markup_escape => text = literal \o filtered
            /\ markup_escape /\ format_spec = "upper" /\ arg = <<"<", "a">>
                   /\ literal = <<"<">> =>
                   text = <<"<", "&", "l", "t", ";", "A">>

C15_Witness ==
    /\ fpc = "done"
    /\ markup_escape
    /\ format_spec = "icon"
    /\ arg = Playing
    /\ literal = <<"<">>
    /\ text = <<"<", "&", "l", "t", ";", "b">>

\* C16: the configured map has the keys of the defaults and of the given
\* map; the icon filter gives the given glyph of a status, else its default
\* glyph, else "?"; and no step of a rendering changes the map.
C16_IconLookup ==
    /\ [](DOMAIN status_icons = DOMAIN DefaultIcons \cup DOMAIN overrides)
    /\ [](fpc = "done" /\ format_spec = "icon" =>
            LET glyph == IF arg \in DOMAIN overrides THEN overrides[arg]
                         ELSE IF arg \in DOMAIN DefaultIcons THEN DefaultIcons[arg]
                         ELSE <<"?">>
            IN  text = literal \o (IF markup_escape THEN Escape(glyph) ELSE glyph))
    /\ [][status_icons' = status_icons]_vars

C16_Witness ==
    /\ fpc = "done"
    /\ format_spec = "icon"
    /\ overrides = (Playing :> <<"<", "b">>)
    /\ arg = Paused
    /\ ~markup_escape
    /\ text = literal \o <<"uf04c">>

\* the part of url behind its last "/", all of it if it has none
LastSegment(url) ==
    LET slashes == {i \in DOMAIN url : url[i] = "/"}
        last == IF slashes = {} THEN 0
                ELSE CHOOSE i \in slashes : \A j \in slashes : j <= i
    IN  SubSeq(url, last + 1, Len(url))

\* C17: after a view update the stored URL is the canonical base followed by
\* the last path segment of the reported URL, the URL rewritten a second
\* time for the image is the same URL, and rewriting it again changes nothing.
C17_RewriteIdempotent ==
    apc = "done" =>
        /\ album_art = new_base_url \o LastSegment(art_url)
        /\ image_url = album_art
        /\ old_url_to_new(image_url) = image_url

C17_Witness ==
    /\ apc = "done"
    /\ art_url = old_base_url \o <<"a", "b">>
    /\ album_art = new_base_url \o <<"a", "b">>
    /\ image_url = album_art

\* C18: every signal is handled by exactly one receiver: the handler that
\* just ran was the only one of its signal, and no signal is left half
\* dispatched.
C18_OneHandlerPerSignal ==
    /\ served = 0
    /\ ev.kind \in {"props", "owner"} => ev.done

\* C19: a call of show_info calls the view only while the view is open, and
\* does call it for every line it prints while the view is open.
C19_UpdateOnlyActiveView ==
    ev.kind \in {"initial", "props"} =>
        /\ ev.view \in {"none", "open"}
        /\ ev.printed = 1 /\ gui = "open" => ev.view = "open"

\* C20: the stored line is None exactly when nothing was printed yet or the
\* last line printed is the blank line of a player exit, and is otherwise
\* the last line printed; only a step that prints a line or resets on a
\* player exit changes it.
C20_PrevIsLastLine ==
    /\ [](prev_info = None <=> (out = <<>> \/ LastOut = Some("")))
    /\ [](prev_info # None => prev_info = LastOut)
    /\ [][prev_info' # prev_info =>
            \/ ev'.kind \in {"initial", "props"} /\ ev'.printed = 1
            \/ ev'.kind = "owner" /\ ev'.lost]_vars

C20_Witness ==
    /\ Len(out) = 3
    /\ out[2] = ""
    /\ prev_info = Some(out[3])
    /\ ev.kind = "props"

====
